---------------------------- MODULE Spec2Model ----------------------------
(***************************************************************************)
(* A model of src/main.py: WebContentAnalyzer (count_words,                *)
(* extract_keywords, fetch_content, analyze) and main().                   *)
(*                                                                         *)
(* Text is a sequence of Unicode code points, so that the character        *)
(* classes of the regular expressions are the ranges the source writes.    *)
(***************************************************************************)
EXTENDS Integers, Sequences, FiniteSets, TLC

VARIABLES
    \* the analyzer object and its environment
    url,                 \* self.url
    soup,                \* self.soup: NoSoup for None, or the parsed page
    text,                \* self.text, a sequence of code points
    jieba,               \* whether `import jieba` succeeds in this environment
    pc,                  \* position of the call in progress
    result,              \* what the last call returned
    \* extract_keywords
    top_n,               \* the argument of the call
    zh_words,            \* the segments the segmenter returned
    filtered_en_words,   \* the Latin tokens kept
    filtered_zh_words,   \* the segments kept
    all_words,           \* filtered_en_words + filtered_zh_words
    \* count_words
    cleaned_text,        \* the whitespace-collapsed text
    prev,                \* the previous count_words call: its cleaned_text and result
    \* main and analyze
    argv,                \* sys.argv[1:]
    target_url,          \* the environment's TARGET_URL: whether set, and its value
    stdin,               \* what input() meets: a line, EOFError or KeyboardInterrupt
    net,                 \* what the request meets
    page,                \* the page the server holds
    fetch_ret,           \* what fetch_content returned
    calls                \* the methods analyze has called, in order

objVars == <<url, soup, text, jieba, pc, result>>
kwVars == <<top_n, zh_words, filtered_en_words, filtered_zh_words, all_words>>
cntVars == <<cleaned_text, prev>>
mainVars == <<argv, target_url, stdin, net, page, fetch_ret, calls>>
vars == <<objVars, kwVars, cntVars, mainVars>>

(***************************************************************************)
(* Bounds of the model.                                                    *)
(***************************************************************************)
MaxPieces == 3
MaxSegLen == 2
MaxTopN == 2
MaxChars == 4

Min(a, b) == IF a <= b THEN a ELSE b
Max(a, b) == IF a >= b THEN a ELSE b

(***************************************************************************)
(* Character classes.                                                      *)
(***************************************************************************)
UpperA == 65
UpperZ == 90
LowerA == 97
LowerZ == 122
CjkFirst == 19968
CjkLast == 40959

\* [a-zA-Z]
IsAsciiLetter(c) == (c >= UpperA /\ c <= UpperZ) \/ (c >= LowerA /\ c <= LowerZ)

\* [\u4e00-\u9fff]
IsCjk(c) == c >= CjkFirst /\ c <= CjkLast

\* what str.split() and str.strip() treat as whitespace (of the characters modelled)
IsSpace(c) == c \in {9, 10, 11, 12, 13, 32, 12288}

\* \w of a str pattern: alphanumeric in Unicode (ideographs included) or underscore
IsWordChar(c) == IsAsciiLetter(c) \/ (c >= 48 /\ c <= 57) \/ c = 95 \/ IsCjk(c)

\* str.lower(), character by character
LowerChar(c) == IF c >= UpperA /\ c <= UpperZ THEN c + 32 ELSE c
Lower(s) == [i \in 1..Len(s) |-> LowerChar(s[i])]

(***************************************************************************)
(* re.findall(r'\b[a-zA-Z]{min,}\b', s)                                    *)
(***************************************************************************)
\* \b before position i (1..Len(s)+1): exactly one side is a word character
AtWordBoundary(s, i) ==
    LET before == i > 1 /\ IsWordChar(s[i - 1])
        after == i <= Len(s) /\ IsWordChar(s[i])
    IN  before # after

\* the number of consecutive [a-zA-Z] characters from position i on
RECURSIVE LetterRun(_, _)
LetterRun(s, i) ==
    IF i <= Len(s) /\ IsAsciiLetter(s[i]) THEN 1 + LetterRun(s, i + 1) ELSE 0

\* the length matched at position i (greedy, backtracking to shorter
\* repetitions), 0 when the pattern does not match there
MatchLetters(s, i, min) ==
    IF ~AtWordBoundary(s, i) THEN 0
    ELSE LET ends == {k \in min..LetterRun(s, i) : AtWordBoundary(s, i + k)}
         IN  IF ends = {} THEN 0 ELSE CHOOSE k \in ends : \A j \in ends : j <= k

RECURSIVE FindAllFrom(_, _, _)
FindAllFrom(s, i, min) ==
    IF i > Len(s) THEN <<>>
    ELSE LET k == MatchLetters(s, i, min)
         IN  IF k = 0 THEN FindAllFrom(s, i + 1, min)
             ELSE <<SubSeq(s, i, i + k - 1)>> \o FindAllFrom(s, i + k, min)

FindAllLetters(s, min) == FindAllFrom(s, 1, min)

Range(s) == {s[i] : i \in 1..Len(s)}

(***************************************************************************)
(* extract_keywords: the Latin tokens.                                     *)
(***************************************************************************)
\* the 3 of [a-zA-Z]{3,}
MinKeywordLen == 3

en_stop_words == {
    <<116, 104, 101>>, <<97, 110, 100>>, <<102, 111, 114>>, <<97, 114, 101>>,
    <<98, 117, 116>>, <<110, 111, 116>>, <<121, 111, 117>>, <<97, 108, 108>>,
    <<99, 97, 110>>, <<104, 101, 114>>, <<119, 97, 115>>, <<111, 110, 101>>,
    <<111, 117, 114>>, <<111, 117, 116>>, <<116, 104, 105, 115>>, <<116, 104, 97, 116>>,
    <<119, 105, 116, 104>>, <<102, 114, 111, 109>>, <<104, 97, 118, 101>>, <<104, 97, 115>>,
    <<104, 97, 100>>, <<119, 105, 108, 108>>, <<109, 111, 114, 101>> }

\* words = re.findall(r'\b[a-zA-Z]{3,}\b', self.text.lower())
words_of(s) == FindAllLetters(Lower(s), MinKeywordLen)

NotEnStopWord(w) == w \notin en_stop_words

\* a plausible slip: the text is not lower-cased before it is matched
filtered_en_words_of_nolower(s) == SelectSeq(FindAllLetters(s, MinKeywordLen), NotEnStopWord)

\* filtered_en_words = [w for w in words if w not in en_stop_words]
filtered_en_words_of(s) == SelectSeq(words_of(s), NotEnStopWord)

(***************************************************************************)
(* extract_keywords: the Chinese tokens.                                   *)
(***************************************************************************)
\* jieba.cut(text) yields consecutive substrings of the text that together
\* make up the text; where it cuts is the segmenter's choice.
RECURSIVE Segmentations(_)
Segmentations(s) ==
    IF s = <<>> THEN {<<>>}
    ELSE UNION {{<<SubSeq(s, 1, k)>> \o r : r \in Segmentations(SubSeq(s, k + 1, Len(s)))} :
                k \in 1..Min(MaxSegLen, Len(s))}

\* the exception `import jieba` raises, "none" when the module is installed
ImportJieba(installed) == IF installed THEN "none" ELSE "ModuleNotFoundError"

\* a plausible slip: the handler names an exception the import does not raise
ExceptImportError_wrong(exc) == exc \in {"AttributeError"}

\* except ImportError: catches ImportError and its subclasses
ExceptImportError(exc) == exc \in {"ImportError", "ModuleNotFoundError"}

zh_stop_words == {
    <<30340>>, <<20102>>, <<21644>>, <<26159>>, <<22312>>, <<20063>>,
    <<26377>>, <<33287>>, <<23559>>, <<21450>>, <<25110>>, <<23601>>,
    <<37117>>, <<32780>>, <<21450>>, <<33879>>, <<20197>>, <<23565>>,
    <<30001>>, <<21450, 20854>>, <<31561>>, <<20013>>, <<20043, 19968>>, <<20006>> }

\* str.strip(): leading and trailing whitespace removed
RECURSIVE LStrip(_)
LStrip(s) == IF s # <<>> /\ IsSpace(s[1]) THEN LStrip(Tail(s)) ELSE s
RECURSIVE RStrip(_)
RStrip(s) == IF s # <<>> /\ IsSpace(s[Len(s)]) THEN RStrip(SubSeq(s, 1, Len(s) - 1)) ELSE s
Strip(s) == RStrip(LStrip(s))

\* the length re.match(r'[\u4e00-\u9fff]+', w) matches at the start of w (greedy);
\* 0 when there is no match (re.match returns None)
RECURSIVE CjkPrefixLen(_)
CjkPrefixLen(w) == IF w # <<>> /\ IsCjk(w[1]) THEN 1 + CjkPrefixLen(Tail(w)) ELSE 0

\* w.strip() and w not in zh_stop_words and re.match(r'[\u4e00-\u9fff]+', w)
KeepZh(w) == Strip(w) # <<>> /\ w \notin zh_stop_words /\ CjkPrefixLen(w) >= 1

filtered_zh_words_of(zh) == SelectSeq(zh, KeepZh)

\* all_words = filtered_en_words + filtered_zh_words
all_words_of(en, zh) == en \o zh

(***************************************************************************)
(* Counter(all_words).most_common(top_n)                                   *)
(***************************************************************************)
\* Counter counts into a dict, which keeps its keys in insertion order:
\* a sequence of (word, count) in order of first occurrence
CounterAdd(c, w) ==
    IF \E i \in 1..Len(c) : c[i].word = w
    THEN [i \in 1..Len(c) |-> IF c[i].word = w
                              THEN [word |-> w, count |-> c[i].count + 1]
                              ELSE c[i]]
    ELSE Append(c, [word |-> w, count |-> 1])

RECURSIVE CounterFrom(_, _)
CounterFrom(c, ws) == IF ws = <<>> THEN c ELSE CounterFrom(CounterAdd(c, Head(ws)), Tail(ws))

Counter(ws) == CounterFrom(<<>>, ws)

\* insertion of e after the entries whose count is at least e's: with the
\* items taken in order it is the stable sort by descending count
\* (sorted(items, key=itemgetter(1), reverse=True))
RECURSIVE InsertDesc(_, _)
InsertDesc(sorted, e) ==
    IF sorted = <<>> THEN <<e>>
    ELSE IF Head(sorted).count >= e.count THEN <<Head(sorted)>> \o InsertDesc(Tail(sorted), e)
    ELSE <<e>> \o sorted

RECURSIVE SortedDescFrom(_, _)
SortedDescFrom(acc, items) ==
    IF items = <<>> THEN acc ELSE SortedDescFrom(InsertDesc(acc, Head(items)), Tail(items))

SortedDesc(items) == SortedDescFrom(<<>>, items)

\* s[:n] of a Python sequence
PySlice(s, n) ==
    IF n >= 0 THEN SubSeq(s, 1, Min(n, Len(s))) ELSE SubSeq(s, 1, Max(Len(s) + n, 0))

\* plausible slips: the ranking is cut with a slice, cut one entry late, or
\* sorted ascending and then reversed, which puts later-seen ties first
most_common_slice(items, n) == PySlice(SortedDesc(items), n)
most_common_late(items, n) == IF n <= 0 THEN <<>> ELSE PySlice(SortedDesc(items), n + 1)
RECURSIVE Reverse(_)
Reverse(s) == IF s = <<>> THEN <<>> ELSE Append(Reverse(Tail(s)), Head(s))
most_common_ties_last(items, n) ==
    IF n <= 0 THEN <<>> ELSE PySlice(SortedDesc(Reverse(items)), n)

\* most_common(n) is heapq.nlargest(n, items, key=count): the first maximum
\* for n = 1, the whole sorted list cut to n for n >= len(items), nothing
\* for n <= 0, and the n largest in sorted order otherwise
most_common(items, n) ==
    IF n = 1 THEN (IF items = <<>> THEN <<>> ELSE <<SortedDesc(items)[1]>>)
    ELSE IF n >= Len(items) THEN PySlice(SortedDesc(items), n)
    ELSE IF n <= 0 THEN <<>>
    ELSE SubSeq(SortedDesc(items), 1, n)

(***************************************************************************)
(* count_words                                                             *)
(***************************************************************************)
\* the number of characters before the first whitespace of s
RECURSIVE NonSpacePrefixLen(_)
NonSpacePrefixLen(s) ==
    IF s # <<>> /\ ~IsSpace(s[1]) THEN 1 + NonSpacePrefixLen(Tail(s)) ELSE 0

\* str.split(): the maximal runs of non-whitespace characters
RECURSIVE Split(_)
Split(s) ==
    LET t == LStrip(s)
        n == NonSpacePrefixLen(t)
    IN  IF t = <<>> THEN <<>>
        ELSE <<SubSeq(t, 1, n)>> \o Split(SubSeq(t, n + 1, Len(t)))

\* sep.join(parts)
RECURSIVE Join(_, _)
Join(sep, parts) ==
    IF parts = <<>> THEN <<>>
    ELSE IF Len(parts) = 1 THEN parts[1]
    ELSE parts[1] \o sep \o Join(sep, Tail(parts))

\* a plausible slip: text.split(' ') keeps the empty strings between spaces
\* and splits on nothing else, so that joining gives the text back
cleaned_text_of_split_space(s) == s

\* cleaned_text = ' '.join(self.text.split())
cleaned_text_of(s) == Join(<<32>>, Split(s))

\* the three statistics of a cleaned text
chinese_chars_of(c) == Len(SelectSeq(c, IsCjk))
english_words_of(c) == Len(FindAllLetters(c, 1))
total_chars_of(c) == Len(c)

\* The body of count_words(); the call returns to ret_pc.
count_words(ret_pc) ==
    \E c \in {cleaned_text_of(text)} :
        /\ cleaned_text' = c
        /\ result' = [chinese_chars |-> chinese_chars_of(c),
                      english_words |-> english_words_of(c),
                      total_chars |-> total_chars_of(c)]
        /\ pc' = ret_pc

(***************************************************************************)
(* The texts the keyword extraction is run on: up to MaxPieces pieces,     *)
(* each a word, a letter, a space or ideographs.                           *)
(***************************************************************************)
KwPieces == {
    <<116, 104, 101>>,    \* the   (a stop word)
    <<67, 97, 116>>,      \* Cat
    <<97>>,               \* a
    <<32>>,               \* space
    <<20854, 20854>>,     \* U+5176 U+5176
    <<21450>> }           \* U+53CA, a stop word; U+53CA U+5176 is one too

RECURSIVE Concat(_)
Concat(ps) == IF ps = <<>> THEN <<>> ELSE Head(ps) \o Concat(Tail(ps))

TextsOf(pieces, n) == {Concat(ps) : ps \in UNION {[1..k -> pieces] : k \in 0..n}}

KwTexts == TextsOf(KwPieces, MaxPieces)

TopNs == (0 - 2)..MaxTopN

None == <<"None">>

\* no earlier count_words call is remembered
NoPrev == [called |-> FALSE]

\* self.soup = None
NoSoup == [parsed |-> FALSE]

(***************************************************************************)
(* extract_keywords(top_n)                                                 *)
(***************************************************************************)
\* The body of extract_keywords(n); the call returns to ret_pc. Each local
\* of the method is bound once, in the order the method assigns it.
extract_keywords(n, ret_pc) ==
    \E en \in {filtered_en_words_of(text)}, exc \in {ImportJieba(jieba)} :
        /\ top_n' = n
        /\ filtered_en_words' = en
        /\ IF exc = "none" \/ ExceptImportError(exc)
           THEN \E zh \in (IF exc = "none" THEN Segmentations(text) ELSE {<<>>}) :
                \E fzh \in {filtered_zh_words_of(zh)} :
                \E all \in {all_words_of(en, fzh)} :
                    /\ zh_words' = zh
                    /\ filtered_zh_words' = fzh
                    /\ all_words' = all
                    /\ result' = most_common(Counter(all), n)
                    /\ pc' = ret_pc
           ELSE \* the exception leaves extract_keywords
                /\ pc' = "raised"
                /\ UNCHANGED <<zh_words, filtered_zh_words, all_words, result>>

InitKeywords ==
    /\ text \in KwTexts
    /\ jieba \in BOOLEAN
    /\ pc = "ready"
    /\ url = <<>> /\ soup = NoSoup /\ result = None
    /\ top_n = None /\ zh_words = None /\ filtered_en_words = None
    /\ filtered_zh_words = None /\ all_words = None
    /\ cleaned_text = None /\ prev = NoPrev
    /\ argv = None /\ target_url = None /\ stdin = None /\ net = None
    /\ page = None /\ fetch_ret = None /\ calls = None

\* a caller calls extract_keywords(n) on the analyzer
ExtractKeywords ==
    /\ pc = "ready"
    /\ \E n \in TopNs : extract_keywords(n, "returned")
    /\ UNCHANGED <<url, soup, text, jieba, cntVars, mainVars>>

Next == ExtractKeywords

Spec == InitKeywords /\ [][Next]_vars

(***************************************************************************)
(* Properties of extract_keywords.                                         *)
(***************************************************************************)
WordsOf(r) == {r[i].word : i \in 1..Len(r)}

\* the position at which w is first seen in the filtered token stream
FirstSeen(w) ==
    CHOOSE i \in 1..Len(all_words) :
        all_words[i] = w /\ \A j \in 1..(i - 1) : all_words[j] # w

Occurrences(w) == Cardinality({i \in 1..Len(all_words) : all_words[i] = w})

IsLatinWord(w) == w # <<>> /\ \A i \in 1..Len(w) : IsAsciiLetter(w[i])

HasCjk(s) == \E i \in 1..Len(s) : IsCjk(s[i])
HasNonCjk(s) == \E i \in 1..Len(s) : ~IsCjk(s[i])

\* C1: for top_n >= 0 the ranking returned has exactly min(top_n, number of
\* distinct tokens of the filtered stream) entries, and its counts never
\* increase from one entry to the next.
C1_LengthAndOrder ==
    (pc = "returned" /\ top_n >= 0) =>
        /\ Len(result) = Min(top_n, Cardinality(Range(all_words)))
        /\ \A i \in 1..(Len(result) - 1) : result[i].count >= result[i + 1].count

\* a ranking cut short of the distinct tokens: its one entry is the most
\* frequent token, which is not the first one of the stream
C1_Witness ==
    /\ pc = "returned"
    /\ top_n = 1
    /\ Cardinality(Range(all_words)) >= 2
    /\ Len(result) = 1
    /\ result[1].count >= 2
    /\ result[1].word # all_words[1]

\* C2: the stream is the Latin tokens followed by the segments kept; entries
\* of equal count come in the order their words are first seen in it, so a
\* Latin word comes before a segment of equal count, and a word cut off by
\* top_n was first seen after every entry of its count.
C2_TieOrder ==
    pc = "returned" =>
        /\ \A i, j \in 1..Len(all_words) :
               (i < j /\ IsLatinWord(all_words[j])) => IsLatinWord(all_words[i])
        /\ \A i, j \in 1..Len(result) :
               (i < j /\ result[i].count = result[j].count) =>
                   /\ FirstSeen(result[i].word) < FirstSeen(result[j].word)
                   /\ IsLatinWord(result[j].word) => IsLatinWord(result[i].word)
        /\ \A w \in Range(all_words) \ WordsOf(result) :
               \A i \in 1..Len(result) :
                   result[i].count = Occurrences(w) => FirstSeen(result[i].word) < FirstSeen(w)

\* a text that starts with ideographs: the Latin word is ranked first among
\* three words of equal count, and the last-seen one is cut off
C2_Witness ==
    /\ pc = "returned"
    /\ text # <<>> /\ IsCjk(text[1])
    /\ Len(result) = 2
    /\ Cardinality(Range(all_words)) = 3
    /\ IsLatinWord(result[1].word)
    /\ ~IsLatinWord(result[2].word)
    /\ result[1].count = result[2].count
    /\ \A w \in Range(all_words) : Occurrences(w) = result[1].count

\* C3: a segment that holds a character outside U+4E00-U+9FFF does not pass
\* the filter, and (when it starts with an ideograph, so that it is no Latin
\* token) is no word of the ranking.
C3_OnlyIdeographSegments ==
    pc = "returned" =>
        \A k \in 1..Len(zh_words) :
            HasNonCjk(zh_words[k]) =>
                /\ zh_words[k] \notin Range(filtered_zh_words)
                /\ IsCjk(zh_words[k][1]) => zh_words[k] \notin WordsOf(result)

\* C5: no English and no Chinese stop word is a word of the ranking, every
\* Latin word of it is lower-case and has at least 3 letters, and a text of
\* English stop words and spaces only gives the empty ranking.
C5_NoStopWords ==
    pc = "returned" =>
        /\ \A w \in WordsOf(result) :
               /\ w \notin en_stop_words
               /\ w \notin zh_stop_words
               /\ IsLatinWord(w) => (Len(w) >= 3 /\ Lower(w) = w)
        /\ ( /\ \A i \in 1..Len(text) : IsAsciiLetter(text[i]) \/ IsSpace(text[i])
             /\ Range(FindAllLetters(Lower(text), 1)) \subseteq en_stop_words )
           => result = <<>>

\* a text with an upper-case word, an English stop word and a Chinese stop
\* word among its segments, and a ranking that is not empty
C5_Witness ==
    /\ pc = "returned"
    /\ Range(words_of(text)) \cap en_stop_words # {}
    /\ \E i \in 1..Len(text) : text[i] >= UpperA /\ text[i] <= UpperZ
    /\ \E w \in WordsOf(result) : IsLatinWord(w)

\* C6: without the segmentation engine the call returns (it does not raise),
\* the Chinese token sequence is empty, and the ranking is the one the
\* filtered Latin tokens alone give.
C6_NoSegmenter ==
    (~jieba /\ pc # "ready") =>
        /\ pc = "returned"
        /\ zh_words = <<>>
        /\ filtered_zh_words = <<>>
        /\ result = most_common(Counter(filtered_en_words_of(text)), top_n)

\* no engine, a text with ideographs in it, and a ranking of its Latin words
C6_Witness ==
    /\ ~jieba
    /\ pc = "returned"
    /\ HasCjk(text)
    /\ result # <<>>

\* C7: for top_n <= 0 the call returns the empty sequence and does not raise.
C7_NonPositive ==
    (pc # "ready" /\ top_n <= 0) => (pc = "returned" /\ result = <<>>)

\* a negative top_n on a stream of at least two distinct tokens
C7_Witness ==
    /\ pc = "returned"
    /\ top_n < 0
    /\ Cardinality(Range(all_words)) >= 2
    /\ result = <<>>

(***************************************************************************)
(* count_words on raw texts of up to MaxChars characters, and again on     *)
(* the canonical text it computed.                                         *)
(***************************************************************************)
\* a  B  1  _  U+5176  space  newline
RawChars == {97, 66, 49, 95, 20854, 32, 10}

RawTexts == UNION {[1..k -> RawChars] : k \in 0..MaxChars}

InitCount ==
    /\ text \in RawTexts
    /\ pc = "ready"
    /\ url = <<>> /\ soup = NoSoup /\ jieba = None /\ result = None
    /\ top_n = None /\ zh_words = None /\ filtered_en_words = None
    /\ filtered_zh_words = None /\ all_words = None
    /\ cleaned_text = None /\ prev = NoPrev
    /\ argv = None /\ target_url = None /\ stdin = None /\ net = None
    /\ page = None /\ fetch_ret = None /\ calls = None

\* a caller calls count_words() on the analyzer
CountWords ==
    /\ pc = "ready"
    /\ count_words("returned")
    /\ UNCHANGED <<url, soup, text, jieba, kwVars, prev, mainVars>>

\* the caller gives the analyzer the canonical text as its text
FeedCanonical ==
    /\ pc = "returned"
    /\ ~prev.called
    /\ prev' = [called |-> TRUE, raw |-> text, cleaned_text |-> cleaned_text,
                result |-> result]
    /\ text' = cleaned_text
    /\ cleaned_text' = None
    /\ result' = None
    /\ pc' = "ready"
    /\ UNCHANGED <<url, soup, jieba, kwVars, mainVars>>

NextCount == CountWords \/ FeedCanonical

SpecCount == InitCount /\ [][NextCount]_vars

\* the number of maximal runs of ASCII letters of s
MaximalLetterRuns(s) ==
    Cardinality({i \in 1..Len(s) :
        IsAsciiLetter(s[i]) /\ (i = 1 \/ ~IsAsciiLetter(s[i - 1]))})

\* C4: english_words is the number of maximal runs of ASCII letters of the
\* whitespace-collapsed text.
C4_EnglishWordRuns ==
    pc = "returned" => result.english_words = MaximalLetterRuns(cleaned_text)

IsCanonical(c) ==
    /\ c # <<>> => (c[1] # 32 /\ c[Len(c)] # 32)
    /\ \A i \in 1..(Len(c) - 1) : ~(c[i] = 32 /\ c[i + 1] = 32)
    /\ \A i \in 1..Len(c) : IsSpace(c[i]) => c[i] = 32

\* C8: the collapsed text has no leading, trailing or double space, and
\* count_words on it gives the same collapsed text and the same three counts
\* as count_words on the raw text.
C8_Idempotent ==
    pc = "returned" =>
        /\ IsCanonical(cleaned_text)
        /\ prev.called =>
               /\ cleaned_text = prev.cleaned_text
               /\ result = prev.result

\* a raw text that collapsing changed, counted again in its canonical form
C8_Witness ==
    /\ pc = "returned"
    /\ prev.called
    /\ prev.raw # prev.cleaned_text
    /\ \E i \in 1..Len(cleaned_text) : cleaned_text[i] = 32
    /\ result.english_words >= 1

(***************************************************************************)
(* main() and analyze()                                                    *)
(***************************************************************************)
\* "https://www.python.org"
default_url == <<104, 116, 116, 112, 115, 58, 47, 47, 119, 119, 119, 46,
                 112, 121, 116, 104, 111, 110, 46, 111, 114, 103>>
\* "http://" and "https://"
HttpPrefix == <<104, 116, 116, 112, 58, 47, 47>>
HttpsPrefix == <<104, 116, 116, 112, 115, 58, 47, 47>>

\* s.startswith(p)
StartsWith(s, p) == Len(s) >= Len(p) /\ SubSeq(s, 1, Len(p)) = p

\* the default of extract_keywords' top_n
DefaultTopN == 10

\* the command lines: no argument, "", "a.co", "http://b"
Argvs == {<<>>, <<<<>>>>, <<<<97, 46, 99, 111>>>>, <<<<104, 116, 116, 112, 58, 47, 47, 98>>>>}
\* TARGET_URL: unset, "", "e.org"
TargetUrls == {[set |-> FALSE, value |-> <<>>], [set |-> TRUE, value |-> <<>>],
               [set |-> TRUE, value |-> <<101, 46, 111, 114, 103>>]}
\* the terminal: end of file, Ctrl-C, the lines "", " " and " c.io "
Stdins == {[kind |-> "EOFError", line |-> <<>>], [kind |-> "KeyboardInterrupt", line |-> <<>>],
           [kind |-> "line", line |-> <<>>], [kind |-> "line", line |-> <<32>>],
           [kind |-> "line", line |-> <<32, 99, 46, 105, 111, 32>>]}
\* the request: answered, refused, timed out, or answered with an error status
Nets == {"ok", "ConnectionError", "Timeout", "HTTPError"}
\* the pages: title is "absent" (no <title>), "empty" (a <title> whose
\* .string is None) or "text"; links are hrefs by the domain they resolve to
Pages == {
    [title |-> "absent", title_text |-> <<>>, text |-> <<>>, links |-> <<>>, images |-> 0],
    [title |-> "empty", title_text |-> <<>>, text |-> <<97>>, links |-> <<"same">>, images |-> 1],
    [title |-> "text", title_text |-> <<32, 67, 97, 116>>,
     text |-> <<67, 97, 116, 10, 20854, 20854>>,
     links |-> <<"relative", "other", "mailto", "same">>, images |-> 2] }

InitMain ==
    /\ argv \in Argvs
    /\ target_url \in TargetUrls
    /\ stdin \in Stdins
    /\ net \in Nets
    /\ page \in Pages
    /\ jieba \in BOOLEAN
    /\ pc = "main"
    /\ url = <<>> /\ soup = NoSoup /\ text = <<>> /\ result = None
    /\ top_n = None /\ zh_words = None /\ filtered_en_words = None
    /\ filtered_zh_words = None /\ all_words = None
    /\ cleaned_text = None /\ prev = NoPrev
    /\ fetch_ret = "not returned" /\ calls = <<>>

\* what input(...).strip() gives; "" when the read is interrupted or at end of file
PromptedUrl(in) == IF in.kind = "line" THEN Strip(in.line) ELSE <<>>

\* url after the if / elif / else on the argument, the environment and the
\* prompt, and after `if not url: url = default_url`
ChosenUrl(args, env, in) ==
    LET u == IF Len(args) >= 1 THEN args[1]
             ELSE IF env.set /\ env.value # <<>> THEN env.value
             ELSE PromptedUrl(in)
    IN  IF u = <<>> THEN default_url ELSE u

MainChooseUrl ==
    /\ pc = "main"
    /\ url' = ChosenUrl(argv, target_url, stdin)
    /\ pc' = "main_scheme"
    /\ UNCHANGED <<soup, text, jieba, result, kwVars, cntVars, mainVars>>

\* if not url.startswith(('http://', 'https://')): url = 'https://' + url,
\* then WebContentAnalyzer(url).analyze()
MainEnsureScheme ==
    /\ pc = "main_scheme"
    /\ url' = IF StartsWith(url, HttpPrefix) \/ StartsWith(url, HttpsPrefix)
              THEN url ELSE HttpsPrefix \o url
    /\ soup' = NoSoup
    /\ text' = <<>>
    /\ pc' = "fetch_get"
    /\ UNCHANGED <<jieba, result, kwVars, cntVars, mainVars>>

\* the handler of fetch_content: except requests.RequestException
IsRequestException(exc) == exc \in {"ConnectionError", "Timeout", "HTTPError"}

\* response = requests.get(...)
FetchGet ==
    /\ pc = "fetch_get"
    /\ calls' = Append(calls, "fetch_content")
    /\ IF net \in {"ConnectionError", "Timeout"}
       THEN IF IsRequestException(net)
            THEN fetch_ret' = "False" /\ pc' = "analyze_check"
            ELSE fetch_ret' = fetch_ret /\ pc' = "raised"
       ELSE fetch_ret' = fetch_ret /\ pc' = "fetch_status"
    /\ UNCHANGED <<url, soup, text, jieba, result, kwVars, cntVars,
                   argv, target_url, stdin, net, page>>

\* response.raise_for_status()
FetchRaiseForStatus ==
    /\ pc = "fetch_status"
    /\ IF net = "HTTPError"
       THEN IF IsRequestException(net)
            THEN fetch_ret' = "False" /\ pc' = "analyze_check"
            ELSE fetch_ret' = fetch_ret /\ pc' = "raised"
       ELSE fetch_ret' = fetch_ret /\ pc' = "fetch_parse"
    /\ UNCHANGED <<url, soup, text, jieba, result, kwVars, cntVars,
                   argv, target_url, stdin, net, page, calls>>

\* self.soup = BeautifulSoup(response.text, 'html.parser')
FetchParse ==
    /\ pc = "fetch_parse"
    /\ soup' = [parsed |-> TRUE, title |-> page.title, title_text |-> page.title_text,
                links |-> page.links, images |-> page.images]
    /\ pc' = "fetch_text"
    /\ UNCHANGED <<url, text, jieba, result, kwVars, cntVars, mainVars>>

\* the script and style tags removed; self.text = self.soup.get_text(); return True
FetchGetText ==
    /\ pc = "fetch_text"
    /\ text' = page.text
    /\ fetch_ret' = "True"
    /\ pc' = "analyze_check"
    /\ UNCHANGED <<url, soup, jieba, result, kwVars, cntVars,
                   argv, target_url, stdin, net, page, calls>>

\* a plausible slip: analyze does not look at what fetch_content returned
AfterFetch_ignored(ret) == "get_title"

\* if not self.fetch_content(): return
AfterFetch(ret) == IF ret = "True" THEN "get_title" ELSE "done"

AnalyzeCheck ==
    /\ pc = "analyze_check"
    /\ pc' = AfterFetch(fetch_ret)
    /\ UNCHANGED <<url, soup, text, jieba, result, kwVars, cntVars, mainVars>>

\* title = self.get_title(): None without a soup, the default without a
\* <title>, AttributeError when title.string is None
AnalyzeTitle ==
    /\ pc = "get_title"
    /\ calls' = Append(calls, "get_title")
    /\ IF ~soup.parsed THEN result' = None /\ pc' = "count_words"
       ELSE IF soup.title = "absent" THEN result' = <<"default title">> /\ pc' = "count_words"
       ELSE IF soup.title = "empty" THEN result' = result /\ pc' = "raised"
       ELSE result' = Strip(soup.title_text) /\ pc' = "count_words"
    /\ UNCHANGED <<url, soup, text, jieba, kwVars, cntVars,
                   argv, target_url, stdin, net, page, fetch_ret>>

\* word_count = self.count_words()
AnalyzeWords ==
    /\ pc = "count_words"
    /\ calls' = Append(calls, "count_words")
    /\ count_words("extract_keywords")
    /\ UNCHANGED <<url, soup, text, jieba, kwVars, prev,
                   argv, target_url, stdin, net, page, fetch_ret>>

\* keywords = self.extract_keywords()
AnalyzeKeywords ==
    /\ pc = "extract_keywords"
    /\ calls' = Append(calls, "extract_keywords")
    /\ extract_keywords(DefaultTopN, "count_links")
    /\ UNCHANGED <<url, soup, text, jieba, cntVars,
                   argv, target_url, stdin, net, page, fetch_ret>>

\* the domain urlparse(urljoin(self.url, href)).netloc of a link, by kind
LinkDomain(href, base_domain) ==
    CASE href \in {"relative", "same"} -> base_domain
      [] href = "other" -> "other.example"
      [] OTHER -> ""

count_links_of(links) ==
    LET base_domain == "base.example"
    IN  [total |-> Len(links),
         internal |-> Cardinality({i \in 1..Len(links) :
                          LinkDomain(links[i], base_domain) = base_domain}),
         external |-> Cardinality({i \in 1..Len(links) :
                          /\ LinkDomain(links[i], base_domain) # base_domain
                          /\ LinkDomain(links[i], base_domain) # ""})]

\* links = self.count_links()
AnalyzeLinks ==
    /\ pc = "count_links"
    /\ calls' = Append(calls, "count_links")
    /\ result' = IF soup.parsed THEN count_links_of(soup.links) ELSE None
    /\ pc' = "count_images"
    /\ UNCHANGED <<url, soup, text, jieba, kwVars, cntVars,
                   argv, target_url, stdin, net, page, fetch_ret>>

\* image_count = self.count_images()
AnalyzeImages ==
    /\ pc = "count_images"
    /\ calls' = Append(calls, "count_images")
    /\ result' = IF soup.parsed THEN soup.images ELSE 0
    /\ pc' = "done"
    /\ UNCHANGED <<url, soup, text, jieba, kwVars, cntVars,
                   argv, target_url, stdin, net, page, fetch_ret>>

NextMain ==
    \/ MainChooseUrl \/ MainEnsureScheme
    \/ FetchGet \/ FetchRaiseForStatus \/ FetchParse \/ FetchGetText
    \/ AnalyzeCheck \/ AnalyzeTitle \/ AnalyzeWords \/ AnalyzeKeywords
    \/ AnalyzeLinks \/ AnalyzeImages

SpecMain == InitMain /\ [][NextMain]_vars

\* C9: the URL main analyses is the command-line argument when it gives one,
\* else TARGET_URL when it gives one, else the prompted input when it gives
\* one, else the default; a source that gives nothing falls through to the
\* next one in order.
C9_Precedence ==
    pc = "main_scheme" =>
        url = IF Len(argv) >= 1 /\ argv[1] # <<>> THEN argv[1]
              ELSE IF target_url.set /\ target_url.value # <<>> THEN target_url.value
              ELSE IF PromptedUrl(stdin) # <<>> THEN PromptedUrl(stdin)
              ELSE default_url

AnalysisMethods ==
    {"get_title", "count_words", "extract_keywords", "count_links", "count_images"}

\* C10: after a request error fetch_content has returned False with
\* self.soup and self.text as they were, analyze then returns, and no other
\* method of the analysis runs unless fetch_content returned True.
C10_FetchFailure ==
    /\ (net # "ok" /\ pc \in {"analyze_check", "done", "raised"}) => fetch_ret = "False"
    /\ fetch_ret = "False" =>
           /\ soup = NoSoup
           /\ text = <<>>
           /\ pc \in {"analyze_check", "done"}
    /\ Range(calls) \cap AnalysisMethods # {} => fetch_ret = "True"

\* the server answered with an error status, and analyze has returned
C10_Witness ==
    /\ net = "HTTPError"
    /\ fetch_ret = "False"
    /\ pc = "done"
    /\ calls = <<"fetch_content">>

====
